---- MODULE Spec2Model ----
(***************************************************************************)
(* The game loop of js/engine.js: main (the frame callback), init, update, *)
(* checkCollisions, updateEntities, render and renderEntities, with the    *)
(* key listeners the loop attaches to the document.  The entities of       *)
(* app.js (player, allEnemies, input) are the loop's collaborators.        *)
(*                                                                         *)
(* JavaScript runs every callback to completion, so each entry from the    *)
(* host (loader ready, animation frame, key event) is one action.  The     *)
(* functions of the engine are operators on a record of the engine's       *)
(* variables, composed the way the code calls them.                        *)
(***************************************************************************)
EXTENDS Integers, Sequences, FiniteSets, TLC

VARIABLES
    started,            \* Resources.onReady has called init
    clock,              \* the latest value Date.now() returned
    lastTime,           \* engine.js:25
    gameStatus,         \* engine.js:26
    player,             \* app.js player: [x, y]
    allEnemies,         \* app.js allEnemies: sequence of [x, y]
    inputAttached,      \* the keyup listener `input` is on the document
    startListeners,     \* startInput closures attached on keydown
    gameoverListeners,  \* gameoverInput closures attached on keydown
    pending,            \* main callbacks queued by requestAnimationFrame
    log,                \* calls of the latest entry into init/main, while it
                        \* is the latest event
    canvasOps           \* drawing operations of that entry

vars == <<started, clock, lastTime, gameStatus, player, allEnemies,
          inputAttached, startListeners, gameoverListeners, pending, log,
          canvasOps>>

---------------------------------------------------------------------------
(* Bounds of the model *)

MaxListeners == 2
MaxTime == 1
NumEnemies == 2

(* Constants of the program *)

NoTime == -1
StartX == 200
StartY == 380
EnterKey == 13
numRows == 6
numCols == 5

(* Collaborators (app.js) *)

KeyLeft == 37
KeyUp == 38
KeyRight == 39
KeyDown == 40
KeyOther == 32
StepX == 100
StepY == 83
MaxX == 200
MinX == 100

Keys == {EnterKey, KeyLeft, KeyUp, KeyRight, KeyDown, KeyOther}
EnemyXs == {180, 400}
EnemyYs == <<380, -20, 60>>
FirstEnemyYs == {-20, 60}

\* app.js: every enemy runs along a row of its own; the first enemy's row is
\* the top row or a row in the middle
EnemyRows(i) ==
    IF i = 1 THEN FirstEnemyYs ELSE {EnemyYs[((i - 2) % Len(EnemyYs)) + 1]}

Pos(x, y) == [x |-> x, y |-> y]

Statuses == {"new game", "in game", "game over"}

---------------------------------------------------------------------------
(* The engine's variables as one record *)

State ==
    [lastTime |-> lastTime, gameStatus |-> gameStatus, player |-> player,
     allEnemies |-> allEnemies, inputAttached |-> inputAttached,
     startListeners |-> startListeners,
     gameoverListeners |-> gameoverListeners, pending |-> pending,
     log |-> <<>>, canvasOps |-> <<>>]

\* a call, with the phase, the player and the enemies it starts from
Ev(s, op) ==
    [op |-> op, st |-> s.gameStatus, p |-> s.player, es |-> s.allEnemies]

Log(s, op) == [s EXCEPT !.log = Append(@, Ev(s, op))]

Draw(s, op) == [s EXCEPT !.canvasOps = Append(@, op)]

---------------------------------------------------------------------------
(* Key listeners *)

\* startInput without its test of the key code
startInput_AnyKey(s, key) == [s EXCEPT !.gameStatus = "in game"]

startInput(s, key) ==
    IF key = EnterKey THEN [s EXCEPT !.gameStatus = "in game"] ELSE s

\* gameoverInput without its test of the key code
gameoverInput_AnyKey(s, key) == [s EXCEPT !.gameStatus = "in game"]

\* gameoverInput restarting at the title screen
gameoverInput_ToNewGame(s, key) ==
    IF key = EnterKey THEN [s EXCEPT !.gameStatus = "new game"] ELSE s

gameoverInput(s, key) ==
    IF key = EnterKey THEN [s EXCEPT !.gameStatus = "in game"] ELSE s

\* app.js: the keyup listener moves the player one step with an arrow key
input(s, key) ==
    LET p == s.player IN
    CASE key = KeyLeft /\ p.x > MinX -> [s EXCEPT !.player.x = p.x - StepX]
      [] key = KeyRight /\ p.x < MaxX -> [s EXCEPT !.player.x = p.x + StepX]
      [] key = KeyUp /\ p.y > 0 -> [s EXCEPT !.player.y = p.y - StepY]
      [] key = KeyDown /\ p.y < StartY -> [s EXCEPT !.player.y = p.y + StepY]
      [] OTHER -> s

RECURSIVE Fire(_, _, _, _)
\* the document calls n attached copies of a listener, one after another
Fire(listener, n, s, key) ==
    IF n = 0 THEN s
    ELSE Fire(listener, n - 1,
              IF listener = "startInput" THEN startInput(s, key)
                                         ELSE gameoverInput(s, key),
              key)

---------------------------------------------------------------------------
(* Entities *)

\* app.js Enemy.prototype.update(dt): a horizontal mover
enemyUpdate(e, nx) == [e EXCEPT !.x = nx]

\* app.js player.update(): movement is event-driven
playerUpdate(p) == p

updateEntities(s, ex) ==
    LET s1 == [s EXCEPT !.allEnemies =
                   [i \in 1..Len(s.allEnemies) |->
                       enemyUpdate(s.allEnemies[i], ex[i])]]
    IN [Log(s1, "updateEntities") EXCEPT !.player = playerUpdate(@)]

---------------------------------------------------------------------------
(* Collision detection *)

\* the test with the enemy's box as wide as the player's
Collides_NarrowEnemy(p, e) ==
    /\ p.x < e.x + 37
    /\ p.x + 37 > e.x
    /\ p.y < e.y + 25
    /\ 30 + p.y > e.y

Collides(p, e) ==
    /\ p.x < e.x + 60
    /\ p.x + 37 > e.x
    /\ p.y < e.y + 25
    /\ 30 + p.y > e.y

\* onCollision resetting x and leaving y
onCollision_KeepY(s) == [Log(s, "collision") EXCEPT !.player.x = 200]

onCollision(s) ==
    [Log(s, "collision") EXCEPT !.player = Pos(200, 380)]

RECURSIVE forEachEnemy_SkipFirst(_, _)
\* the loop leaving out the first enemy
forEachEnemy_SkipFirst(s, i) ==
    IF i > Len(s.allEnemies) THEN s
    ELSE forEachEnemy_SkipFirst(
             IF i > 1 /\ Collides(s.player, s.allEnemies[i])
               THEN onCollision(s) ELSE s, i + 1)

RECURSIVE forEachEnemy(_, _)
forEachEnemy(s, i) ==
    IF i > Len(s.allEnemies) THEN s
    ELSE forEachEnemy(IF Collides(s.player, s.allEnemies[i])
                        THEN onCollision(s) ELSE s, i + 1)

RECURSIVE init(_, _)

\* the win ending the game without moving the player back
checkCollisions_NoResetOnWin(s, now) ==
    LET s1 == forEachEnemy(Log(s, "checkCollisions"), 1) IN
    IF s1.player.y < 0
      THEN init([Log(s1, "win") EXCEPT !.gameStatus = "game over"], now)
      ELSE s1

checkCollisions(s, now) ==
    LET s1 == forEachEnemy(Log(s, "checkCollisions"), 1) IN
    IF s1.player.y < 0
      THEN init([Log(s1, "win") EXCEPT !.player = Pos(200, 380),
                                       !.gameStatus = "game over"], now)
      ELSE s1

---------------------------------------------------------------------------
(* update *)

\* removeEventListener given a function that was never attached
removeInput_Noop(s) == s

removeInput(s) == [s EXCEPT !.inputAttached = FALSE]

addInput(s) == [s EXCEPT !.inputAttached = TRUE]

addStartInput(s) == [s EXCEPT !.startListeners = @ + 1]

addGameoverInput(s) == [s EXCEPT !.gameoverListeners = @ + 1]

\* update with the collision check also in the "game over" branch
update_CheckWhenOver(s, ex, now) ==
    LET s0 == Log(s, "update")
        s1 == CASE s0.gameStatus = "new game" ->
                     addStartInput(removeInput(s0))
                [] s0.gameStatus = "in game" ->
                     checkCollisions(updateEntities(addInput(s0), ex), now)
                [] s0.gameStatus = "game over" ->
                     forEachEnemy(Log(addGameoverInput(removeInput(s0)),
                                      "checkCollisions"), 1)
                [] OTHER -> s0
    IN Log(s1, "updateEnd")

update(s, ex, now) ==
    LET s0 == Log(s, "update")
        s1 == CASE s0.gameStatus = "new game" ->
                     addStartInput(removeInput(s0))
                [] s0.gameStatus = "in game" ->
                     checkCollisions(updateEntities(addInput(s0), ex), now)
                [] s0.gameStatus = "game over" ->
                     addGameoverInput(removeInput(s0))
                [] OTHER -> s0
    IN Log(s1, "updateEnd")

---------------------------------------------------------------------------
(* render *)

\* n repetitions of the drawing operations ops
Times(n, ops, s) ==
    [s EXCEPT !.canvasOps =
        @ \o [i \in 1..(n * Len(ops)) |-> ops[((i - 1) % Len(ops)) + 1]]]

TileNewGame ==
    <<"drawImage", "fillText", "fillText", "fillText", "fillText", "fillText">>

TileInGame == <<"drawImage">>

TileGameOver == <<"drawImage", "fillText", "fillText", "fillText">>

\* renderEntities drawing the player under the enemies
renderEntities_PlayerFirst(s) ==
    [Draw(s, "player.render") EXCEPT !.canvasOps =
        @ \o [i \in 1..Len(s.allEnemies) |-> "enemy.render"]]

renderEntities(s) ==
    Draw([s EXCEPT !.canvasOps =
              @ \o [i \in 1..Len(s.allEnemies) |-> "enemy.render"]],
         "player.render")

\* render clearing the canvas after the tiles of the "game over" screen
render_ClearLate(s) ==
    LET s0 == Draw(Log(s, "render"), "render") IN
    CASE s0.gameStatus = "new game" ->
           Times(numRows * numCols, TileNewGame, Draw(s0, "clearRect"))
      [] s0.gameStatus = "in game" ->
           renderEntities(Times(numRows * numCols, TileInGame,
                                Draw(s0, "clearRect")))
      [] s0.gameStatus = "game over" ->
           Draw(Times(numRows * numCols, TileGameOver, s0), "clearRect")
      [] OTHER -> Draw(s0, "clearRect")

render(s) ==
    LET s0 == Draw(Draw(Log(s, "render"), "render"), "clearRect") IN
    CASE s0.gameStatus = "new game" ->
           Times(numRows * numCols, TileNewGame, s0)
      [] s0.gameStatus = "in game" ->
           renderEntities(Times(numRows * numCols, TileInGame, s0))
      [] s0.gameStatus = "game over" ->
           Times(numRows * numCols, TileGameOver, s0)
      [] OTHER -> s0

---------------------------------------------------------------------------
(* main and init *)

\* main not rescheduled once the game is over
requestAnimationFrame_NotWhenOver(s) ==
    IF s.gameStatus = "game over" THEN s
    ELSE Log([s EXCEPT !.pending = @ + 1], "requestAnimationFrame")

requestAnimationFrame(s) ==
    Log([s EXCEPT !.pending = @ + 1], "requestAnimationFrame")

\* main calling render before update
main_RenderFirst(s, ex, now) ==
    LET s1 == render(Log(s, "main"))
        s2 == update(s1, ex, now)
        s3 == Log([s2 EXCEPT !.lastTime = now], "lastTime")
    IN requestAnimationFrame(s3)

main(s, ex, now) ==
    LET s1 == update(Log(s, "main"), ex, now)
        s2 == render(s1)
        s3 == Log([s2 EXCEPT !.lastTime = now], "lastTime")
    IN requestAnimationFrame(s3)

\* entered from checkCollisions the phase is "game over": update moves no enemy
init(s, now) ==
    main(Log([s EXCEPT !.lastTime = now], "lastTime"),
         [i \in 1..NumEnemies |-> 0], now)

---------------------------------------------------------------------------
(* The specification *)

Init ==
    /\ started = FALSE
    /\ clock = 0
    /\ lastTime = NoTime
    /\ gameStatus = "new game"
    /\ player = Pos(StartX, StartY)
    /\ \E xs \in [1..NumEnemies -> EnemyXs] :
         \E y1 \in EnemyRows(1) :
           allEnemies = [i \in 1..NumEnemies |->
                           Pos(xs[i], IF i = 1 THEN y1
                                      ELSE CHOOSE y \in EnemyRows(i) : TRUE)]
    /\ inputAttached = FALSE
    /\ startListeners = 0
    /\ gameoverListeners = 0
    /\ pending = 0
    /\ log = <<>>
    /\ canvasOps = <<>>

\* Date.now() at the start of a callback: the clock does not run backwards
Nows == {t \in clock..(clock + 1) : t <= MaxTime}

Bounded(s) ==
    /\ s.startListeners <= MaxListeners
    /\ s.gameoverListeners <= MaxListeners

Install(s) ==
    /\ lastTime' = s.lastTime
    /\ gameStatus' = s.gameStatus
    /\ player' = s.player
    /\ allEnemies' = s.allEnemies
    /\ inputAttached' = s.inputAttached
    /\ startListeners' = s.startListeners
    /\ gameoverListeners' = s.gameoverListeners
    /\ pending' = s.pending

\* Resources.onReady(init)
Ready ==
    /\ ~started
    /\ started' = TRUE
    /\ \E now \in Nows :
         LET s == init(State, now) IN
           /\ Install(s)
           /\ log' = s.log
           /\ canvasOps' = s.canvasOps
           /\ clock' = now

\* the host runs one queued frame callback
Frame ==
    /\ started
    /\ pending > 0
    /\ \E ex \in [1..NumEnemies -> EnemyXs], now \in Nows :
         LET s == main([State EXCEPT !.pending = @ - 1], ex, now) IN
           /\ Bounded(s)
           /\ Install(s)
           /\ log' = s.log
           /\ canvasOps' = s.canvasOps
           /\ clock' = now
    /\ UNCHANGED started

\* a keydown event: every attached startInput and gameoverInput is called
KeyDownOn(key) ==
    /\ Install(Fire("gameoverInput", gameoverListeners,
                    Fire("startInput", startListeners, State, key), key))
    /\ log' = <<>>
    /\ canvasOps' = <<>>
    /\ UNCHANGED <<started, clock>>

KeyDownEvent == \E key \in Keys : KeyDownOn(key)

\* a keyup event: input is called when it is attached
KeyUpOn(key) ==
    /\ Install(IF inputAttached THEN input(State, key) ELSE State)
    /\ log' = <<>>
    /\ canvasOps' = <<>>
    /\ UNCHANGED <<started, clock>>

KeyUpEvent == \E key \in Keys : KeyUpOn(key)

Next == Ready \/ Frame \/ KeyDownEvent \/ KeyUpEvent

Spec == Init /\ [][Next]_vars

---------------------------------------------------------------------------
(* The loop left running for ever.  Attached copies of a listener all do   *)
(* the same, so MaxListeners stands for "MaxListeners or more" and no      *)
(* frame is held back; the user wins a bounded number of times; the host   *)
(* keeps running queued frame callbacks, each later than the one before    *)
(* it, with the clock read modulo MaxTime + 1.                             *)

Min(a, b) == IF a < b THEN a ELSE b

Saturate(s) ==
    [s EXCEPT !.startListeners = Min(@, MaxListeners),
              !.gameoverListeners = Min(@, MaxListeners)]

NextNow == (clock + 1) % (MaxTime + 1)

LiveFrame ==
    /\ started
    /\ pending > 0
    /\ \E ex \in [1..NumEnemies -> EnemyXs] :
         LET s == Saturate(main([State EXCEPT !.pending = @ - 1], ex,
                                NextNow))
         IN /\ Install(s)
            /\ log' = s.log
            /\ canvasOps' = s.canvasOps
            /\ clock' = NextNow
    /\ UNCHANGED started

\* the steps of LiveNext that run a queued frame callback are those of
\* LiveFrame: the host runs one whenever one is queued
FrameRuns ==
    /\ started
    /\ pending > 0
    /\ clock' = NextNow

LiveKeyUp ==
    \E key \in Keys :
        /\ KeyUpOn(key)
        /\ player'.y < 0 => pending <= MaxListeners

LiveNext == Ready \/ LiveFrame \/ KeyDownEvent \/ LiveKeyUp

LiveSpec == Init /\ [][LiveNext]_vars /\ WF_clock(FrameRuns)

---------------------------------------------------------------------------
(* checkCollisions on its own: one enemy and the player anywhere on a grid *)
(* around the edges of the two boxes                                       *)

GridXs == {139, 140, 141, 180, 200, 236, 237, 238, 400}
GridYs == {349, 350, 351, 355, 356, 380, 409, 410, 411}
GridPos == [x : GridXs, y : GridYs]

OverlapInit ==
    /\ started = TRUE
    /\ clock = 0
    /\ lastTime = 0
    /\ gameStatus = "in game"
    /\ player \in GridPos
    /\ \E e \in GridPos : allEnemies = <<e>>
    /\ inputAttached = TRUE
    /\ startListeners = 1
    /\ gameoverListeners = 0
    /\ pending = 0
    /\ log = <<>>
    /\ canvasOps = <<>>

CheckCollisions ==
    /\ log = <<>>
    /\ LET s == checkCollisions(State, clock) IN
         /\ Install(s)
         /\ log' = s.log
         /\ canvasOps' = s.canvasOps
    /\ UNCHANGED <<started, clock>>

OverlapNext == CheckCollisions

OverlapSpec == OverlapInit /\ [][OverlapNext]_vars

---------------------------------------------------------------------------
(* Reading the log *)

Indices(op) == {i \in DOMAIN log : log[i].op = op}

Count(op) == Cardinality(Indices(op))

\* the update that main started from the host has returned
UpdateDone == Indices("updateEnd") # {}

\* the state in which that update returned
AfterUpdate ==
    log[CHOOSE i \in Indices("updateEnd") :
            \A j \in Indices("updateEnd") : j <= i]

\* the calls to update, render and requestAnimationFrame, in order
LoopCalls ==
    LET keep(e) == e.op \in {"update", "render", "requestAnimationFrame"}
        kept == SelectSeq(log, keep)
    IN [i \in DOMAIN kept |-> kept[i].op]

OverlapsSome(e) == \E j \in DOMAIN e.es : Collides(e.p, e.es[j])

---------------------------------------------------------------------------
(* C1: an update in phase InGame that starts checkCollisions with the      *)
(* player's y below 0 ends with the player at (200, 380) and the phase     *)
(* GameOver, also when the player overlaps an enemy in that frame.         *)
C1_TopRowWins ==
    \A i \in Indices("checkCollisions") :
        (log[i].st = "in game" /\ log[i].p.y < 0) =>
            /\ AfterUpdate.p = Pos(200, 380)
            /\ AfterUpdate.st = "game over"

(* C2: at most one frame callback for main is pending, and main is entered *)
(* only as that callback (once by init at the start).                      *)
C2_OneFrameCallback ==
    /\ pending <= 1
    /\ Count("main") <= 1

(* C3: in phase NewGame the loop has attached exactly one Enter keydown    *)
(* listener, however many times update has run.                            *)
C3_OneStartListener ==
    (started /\ gameStatus = "new game") => startListeners = 1

(* C4: in phase NewGame only an Enter keydown changes the phase, and only  *)
(* to InGame: frames, keyups and keydowns of other keys leave it NewGame.  *)
C4_NewGameLeavesByEnter ==
    [][gameStatus = "new game" =>
         /\ gameStatus' \in {"new game", "in game"}
         /\ (\/ Ready
             \/ Frame
             \/ KeyUpEvent
             \/ \E key \in Keys \ {EnterKey} : KeyDownOn(key))
                => gameStatus' = "new game"]_vars

\* Enter has just moved the game from NewGame, entered by several updates
C4_Witness ==
    /\ gameStatus = "in game"
    /\ startListeners >= 2
    /\ gameoverListeners = 0
    /\ ~inputAttached
    /\ log = <<>>

(* C5: in phase GameOver only an Enter keydown changes the phase, and only *)
(* to InGame, with the listeners of earlier periods still attached.        *)
C5_GameOverLeavesByEnter ==
    [][gameStatus = "game over" =>
         /\ gameStatus' \in {"game over", "in game"}
         /\ (\/ Ready
             \/ Frame
             \/ KeyUpEvent
             \/ \E key \in Keys \ {EnterKey} : KeyDownOn(key))
                => gameStatus' = "game over"]_vars

\* Enter has just moved the game from a second GameOver period
C5_Witness ==
    /\ gameStatus = "in game"
    /\ startListeners >= 1
    /\ gameoverListeners >= 2
    /\ pending >= 3
    /\ ~inputAttached
    /\ log = <<>>

(* C6: an update in phase InGame whose checkCollisions starts with the     *)
(* player overlapping an enemy ends with the player at (200, 380) and the  *)
(* phase InGame.                                                           *)
C6_CollisionResets ==
    \A i \in Indices("checkCollisions") :
        (log[i].st = "in game" /\ OverlapsSome(log[i])) =>
            /\ AfterUpdate.p = Pos(200, 380)
            /\ AfterUpdate.st = "in game"

\* the player was hit away from the start position
C6_Witness ==
    \E i \in Indices("checkCollisions") :
        /\ OverlapsSome(log[i])
        /\ log[i].p # Pos(200, 380)
        /\ UpdateDone

(* C7: an invocation of main runs update once, then render once, and       *)
(* registers one frame callback, with no other update or render.           *)
C7_UpdateRenderOnce ==
    log # <<>> => LoopCalls = <<"update", "render", "requestAnimationFrame">>

\* axis-aligned boxes: left, right, top, bottom
Box(pos, w, h) == [l |-> pos.x, r |-> pos.x + w, t |-> pos.y, b |-> pos.y + h]

PlayerBox(p) == Box(p, 37, 30)

EnemyBox(e) == Box(e, 60, 25)

\* two boxes overlap unless one lies wholly beside, above or below the other
BoxesOverlap(a, b) == ~(a.r <= b.l \/ b.r <= a.l \/ a.b <= b.t \/ b.b <= a.t)

(* C8: checkCollisions finds a collision exactly when the player's 37x30   *)
(* box and the enemy's 60x25 box overlap, edges excluded: player (200,380) *)
(* collides with enemy (180,380) and not with enemy (400,380).             *)
C8_OverlapTest ==
    \A i \in Indices("checkCollisions") :
        LET p == log[i].p
            e == log[i].es[1]
            hit == Count("collision") > 0
        IN /\ hit <=> BoxesOverlap(PlayerBox(p), EnemyBox(e))
           /\ (p = Pos(200, 380) /\ e = Pos(180, 380)) => hit
           /\ (p = Pos(200, 380) /\ e = Pos(400, 380)) => ~hit

\* the overlapping pair of the example has been tested and the player reset
C8_Witness ==
    \E i \in Indices("checkCollisions") :
        /\ log[i].p = Pos(200, 380)
        /\ log[i].es[1] = Pos(180, 380)
        /\ Count("collision") = 1
        /\ player = Pos(200, 380)

(* C9: every render() clears the canvas before it draws anything.          *)
C9_ClearFirst ==
    \A i \in DOMAIN canvasOps :
        /\ canvasOps[i] = "render" =>
              i < Len(canvasOps) /\ canvasOps[i + 1] = "clearRect"
        /\ canvasOps[i] \notin {"render", "clearRect"} =>
              \E j \in 1..(i - 1) :
                  /\ canvasOps[j] = "clearRect"
                  /\ \A k \in j..i : canvasOps[k] # "render"

\* the frame of a win: two renders of the "game over" screen
C9_Witness ==
    /\ Cardinality({i \in DOMAIN canvasOps : canvasOps[i] = "render"}) = 2
    /\ canvasOps[Len(canvasOps)] = "fillText"

(* C10: the phase is one of NewGame, InGame, GameOver, NewGame at first,   *)
(* and checkCollisions, its reset and its win check run only in InGame.    *)
C10_PhaseAndChecks ==
    /\ gameStatus \in Statuses
    /\ ~started => gameStatus = "new game"
    /\ \A i \in DOMAIN log :
          log[i].op \in {"checkCollisions", "collision", "win"} =>
              log[i].st = "in game"

\* a frame in GameOver, after the frames of NewGame and InGame
C10_Witness ==
    /\ gameStatus = "game over"
    /\ Count("main") = 1
    /\ Count("checkCollisions") = 0
    /\ UpdateDone

\* up to every call of render, update has been called at least as often
UpdateBeforeRender ==
    \A i \in Indices("render") :
        Cardinality({j \in Indices("update") : j < i}) >=
            Cardinality({j \in Indices("render") : j <= i})

\* some Enter keydown listener is on the document
EnterListened == startListeners + gameoverListeners > 0

(* C11, as stated: an Enter keydown leaves the phase as it was until the   *)
(* next update starts.                                                     *)
C11_PhaseWaitsForUpdate ==
    [][KeyDownOn(EnterKey) => gameStatus' = gameStatus]_vars

(* C11, amended: the Enter keydown handler writes the new phase at once    *)
(* and changes nothing else; what the phase selects (listeners, entities,  *)
(* drawing) starts with the next update, and in every frame update runs    *)
(* before render.                                                          *)
C11_PhaseWrittenAtOnce ==
    /\ [][KeyDownOn(EnterKey) =>
            /\ gameStatus' = IF EnterListened THEN "in game" ELSE gameStatus
            /\ UNCHANGED <<lastTime, player, allEnemies, inputAttached,
                           startListeners, gameoverListeners, pending>>]_vars
    /\ []UpdateBeforeRender

\* Enter has been pressed in NewGame and no update has run since: the phase
\* is InGame already and the movement listener is not attached yet
C11_Witness ==
    /\ gameStatus = "in game"
    /\ gameoverListeners = 0
    /\ startListeners = 1
    /\ ~inputAttached
    /\ log = <<>>

(* C12: once init has started the loop it never stops: a frame callback   *)
(* is pending after every callback, and main runs again and again, in      *)
(* every phase and after any key presses, collisions and wins.             *)
C12_LoopNeverStops ==
    /\ [](started => pending >= 1)
    /\ []<>(started => log # <<>>)

\* a frame has run in GameOver after a win, with two callbacks pending
C12_Witness ==
    /\ started
    /\ gameStatus = "game over"
    /\ pending >= 2
    /\ Count("main") = 1

(* C13: lastTime is written by init when the loop starts and then once a   *)
(* frame, after the frame's update and render; update and render, with     *)
(* checkCollisions, do not write it.                                       *)
C13_LastTimeOncePerFrame ==
    log # <<>> =>
        /\ Count("lastTime") = IF log[1].op = "lastTime" THEN 2 ELSE 1
        /\ \A i \in Indices("lastTime") :
              \/ i = 1
              \/ /\ \A j \in Indices("update") \cup Indices("updateEnd")
                                \cup Indices("render") : j < i
                 /\ i = Len(log) - 1

(* C14: when the updates of a frame have returned, the keyup listener      *)
(* input is attached exactly if the phase is InGame, also in the frame of  *)
(* a win.                                                                  *)
C14_InputAttachedInGame ==
    (log # <<>> /\ UpdateDone) =>
        /\ AfterUpdate.st = gameStatus
        /\ inputAttached <=> gameStatus = "in game"

\* the frame of a win: attached by the update in InGame, removed by the
\* update in GameOver inside it
C14_Witness ==
    /\ Count("win") = 1
    /\ Count("updateEnd") = 2
    /\ ~inputAttached
    /\ gameStatus = "game over"

\* the places of the render markers in canvasOps, and the k-th of them
RenderMarks == {i \in DOMAIN canvasOps : canvasOps[i] = "render"}

Mark(k) ==
    CHOOSE i \in RenderMarks :
        Cardinality({j \in RenderMarks : j <= i}) = k

\* what the k-th render of the frame drew
Drawn(k) ==
    LET from == Mark(k) + 1
        to == IF k < Cardinality(RenderMarks) THEN Mark(k + 1) - 1
              ELSE Len(canvasOps)
    IN SubSeq(canvasOps, from, to)

\* the phase in which the k-th render of the frame started
RenderPhase(k) ==
    log[CHOOSE i \in Indices("render") :
            Cardinality({j \in Indices("render") : j <= i}) = k].st

Repeat(n, op) == [i \in 1..n |-> op]

Ops(seq) == {seq[i] : i \in DOMAIN seq}

(* C15: render draws entities only in phase InGame, and then clear, the    *)
(* board tiles, every enemy, the player last; in NewGame and GameOver it   *)
(* draws tiles and text and no entity.                                     *)
C15_EntitiesOnlyInGame ==
    /\ Cardinality(RenderMarks) = Count("render")
    /\ \A k \in 1..Cardinality(RenderMarks) :
          IF RenderPhase(k) = "in game"
            THEN Drawn(k) = <<"clearRect">>
                              \o Repeat(numRows * numCols, "drawImage")
                              \o Repeat(Len(allEnemies), "enemy.render")
                              \o <<"player.render">>
            ELSE /\ Drawn(k)[1] = "clearRect"
                 /\ Ops(Drawn(k)) = {"clearRect", "drawImage", "fillText"}

\* a frame in InGame, then drawn with the enemies and the player
C15_Witness ==
    /\ gameStatus = "in game"
    /\ Cardinality(RenderMarks) = 1
    /\ canvasOps[Len(canvasOps)] = "player.render"

(* C16: the phase changes only from NewGame to InGame and from GameOver   *)
(* to InGame by an Enter keydown, and from InGame to GameOver by a win in   *)
(* checkCollisions; no key event changes it in InGame, and an Enter         *)
(* keydown in InGame leaves the phase and the player as they are.           *)
C16_PhaseChanges ==
    [][/\ gameStatus' # gameStatus =>
            \/ /\ gameStatus = "new game"
               /\ gameStatus' = "in game"
               /\ KeyDownOn(EnterKey)
            \/ /\ gameStatus = "in game"
               /\ gameStatus' = "game over"
               /\ \E i \in DOMAIN log' :
                     log'[i].op = "win" /\ log'[i].p.y < 0
            \/ /\ gameStatus = "game over"
               /\ gameStatus' = "in game"
               /\ KeyDownOn(EnterKey)
       /\ (gameStatus = "in game" /\ (KeyDownEvent \/ KeyUpEvent)) =>
              gameStatus' = "in game"
       /\ (gameStatus = "in game" /\ KeyDownOn(EnterKey)) =>
              UNCHANGED <<gameStatus, player>>]_vars

\* a key event in InGame, in a game restarted after a win, with the player
\* away from the start
C16_Witness ==
    /\ gameStatus = "in game"
    /\ inputAttached
    /\ gameoverListeners >= 1
    /\ player # Pos(200, 380)
    /\ log = <<>>

(* C17: in phase GameOver the player is at (200, 380), and stays there     *)
(* while the phase stays GameOver.                                         *)
C17_GameOverAtStart ==
    /\ [](gameStatus = "game over" => player = Pos(200, 380))
    /\ [][(gameStatus = "game over" /\ gameStatus' = "game over") =>
             player' = player]_vars

\* key events have come in GameOver
C17_Witness ==
    /\ gameStatus = "game over"
    /\ ~inputAttached
    /\ player = Pos(200, 380)
    /\ log = <<>>

\* the update that the host's frame started ran in phase InGame
UpdateInGame ==
    /\ UpdateDone
    /\ log[CHOOSE i \in Indices("update") :
                \A j \in Indices("update") : i <= j].st = "in game"

\* the player's box overlaps the box of some enemy
BoxOverlapsSome(e) ==
    \E j \in DOMAIN e.es : BoxesOverlap(PlayerBox(e.p), EnemyBox(e.es[j]))

(* C18, as stated: after an update in phase InGame the player's y is not   *)
(* below 0 and the player overlaps no enemy.                               *)
C18_NoOverlapAfterUpdate ==
    UpdateInGame =>
        /\ AfterUpdate.p.y >= 0
        /\ ~BoxOverlapsSome(AfterUpdate)

(* C18, amended: after an update in phase InGame the player's y is not     *)
(* below 0, and the player overlaps no enemy or stands at (200, 380).      *)
C18_NoOverlapOrAtStart ==
    UpdateInGame =>
        /\ AfterUpdate.p.y >= 0
        /\ ~BoxOverlapsSome(AfterUpdate) \/ AfterUpdate.p = Pos(200, 380)

\* the player was hit on a row in the middle and put back at the start,
\* under an enemy
C18_Witness ==
    /\ UpdateInGame
    /\ \E i \in Indices("collision") :
          log[i].p.y >= 0 /\ log[i].p.y # 380
    /\ AfterUpdate.p = Pos(200, 380)
    /\ BoxOverlapsSome(AfterUpdate)

====
